---- MODULE Spec2Model ----
(***************************************************************************)
(* Exit station of the orientation QR scanner (app.py).                    *)
(*                                                                         *)
(* The backing store is a worksheet: row 1 is the header, data rows start  *)
(* at row 2, columns are ID, Name, Branch, EntryStatus, EntryTime,         *)
(* ExitStatus, ExitTime.  Each station process runs the Streamlit script:  *)
(* optionally process_student_exit (one read of all records, then up to    *)
(* two update_cell calls), then get_exit_statistics.  The store calls are  *)
(* the only steps at which two stations interleave.                        *)
(***************************************************************************)
EXTENDS Integers, Sequences, FiniteSets, TLC

VARIABLES sheet, \* the worksheet: a sequence of rows of 7 cells, row 1 the header
    pc,         \* per station: where its script run stands
    qr,         \* per station: qr_data of the running call
    i,          \* per station: worksheet row of the matched record, 0 if none
    row,        \* per station: the matched record as it was read
    now,        \* per station: the timestamp string of the running call
    outcome,    \* per station: the branch whose messages the call showed
    raised,     \* per station: an exception left process_student_exit
    wlog,       \* per station: columns written by the running call, in order
    seen,       \* per station: an exit of qr had been recorded and returned
                \*              before the call began
    lastw,      \* the running call that wrote an ExitTime cell last
    stats,      \* per station: the statistics shown by the script run
    prev        \* qr_data of the last returned call that recorded an exit

vars == <<sheet, pc, qr, i, row, now, outcome, raised, wlog, seen,
          lastw, stats, prev>>

(* ---------------------------- bounds ----------------------------------- *)
MaxRows == 2
MaxClock == 1

Stations == {"s1", "s2"}

(* ------------------------ python values -------------------------------- *)
\* A cell read by get_all_records is an int (numeric cell) or a str.
PyInt(n) == [kind |-> "int", val |-> n]
PyStr(s) == [kind |-> "str", val |-> s]

Digit == <<"0", "1", "2", "3", "4", "5", "6", "7", "8", "9">>

RECURSIVE IntToStr(_)
IntToStr(n) ==
    IF n < 10 THEN Digit[n + 1]
    ELSE IntToStr(n \div 10) \o Digit[(n % 10) + 1]

\* str(x): decimal digits of an int, a str unchanged
Str(v) == IF v.kind = "int" THEN IntToStr(v.val) ELSE v.val

\* datetime.now().strftime("%Y-%m-%d %H:%M:%S") at second c of 11:30
Strftime(c) ==
    "2025-08-18 11:30:" \o (IF c < 10 THEN "0" ELSE "") \o IntToStr(c)

\* Python truthiness of a status cell: `not x` holds of the empty string
Truthy(s) == s # ""

(* --------------------------- the worksheet ----------------------------- *)
\* update_cell(i, 6, ...) aimed at the EntryStatus column
ExitStatusColMut == 6 - 2
ExitStatusCol == 6
\* update_cell(i, 7, ...) aimed at the ExitStatus column
ExitTimeColMut == 7 - 1
ExitTimeCol == 7
EnumStart == 2

Header == <<PyStr("ID"), "Name", "Branch", "EntryStatus", "EntryTime",
            "ExitStatus", "ExitTime">>

EntryTimeBefore == "2025-08-18 09:00:00"
ExitTimeBefore == "2025-08-18 10:00:00"

IdCells == {PyInt(7), PyStr("A1")}
ScanInputs == {"7", "07", "A1"}

EntryCells == {<<"", "">>, <<"Entered", EntryTimeBefore>>}
ExitCells == {<<"", "">>, <<"Exited", ExitTimeBefore>>}

DataRows ==
    {<<id, "name", "branch", en[1], en[2], ex[1], ex[2]>> :
        id \in IdCells, en \in EntryCells, ex \in ExitCells}

RowTuples(n) == [1..n -> DataRows]

\* every worksheet of up to MaxRows data rows under the header
Sheets == UNION {{<<Header>> \o rs : rs \in RowTuples(n)} : n \in 0..MaxRows}

\* the data model's invariant: no row is Exited without being Entered
Consistent(sh) ==
    \A r \in 2..Len(sh) : sh[r][6] = "Exited" => sh[r][4] = "Entered"

\* sheet.get_all_records(): one dict per data row, keyed by the header
GetAllRecords(sh) ==
    [k \in 1..(Len(sh) - 1) |->
        [ID |-> sh[k + 1][1], Name |-> sh[k + 1][2], Branch |-> sh[k + 1][3],
         EntryStatus |-> sh[k + 1][4], EntryTime |-> sh[k + 1][5],
         ExitStatus |-> sh[k + 1][6], ExitTime |-> sh[k + 1][7]]]

\* sheet.update_cell(r, c, v): the cell is overwritten, whatever it holds
\* (variant: a cell is written only while it is empty)
UpdateCellMut(sh, r, c, v) ==
    IF sh[r][c] = "" THEN [sh EXCEPT ![r][c] = v] ELSE sh
UpdateCell(sh, r, c, v) == [sh EXCEPT ![r][c] = v]

(* ----------------------- process_student_exit -------------------------- *)
\* for i, row in enumerate(records, start=2): if str(row["ID"]) == str(qr_data)
\* The position (1-based) in records of the first match from k on, 0 if none.
\* str(row["ID"]) == str(qr_data)
\* (variant: a leading zero of the scanned text is ignored)
IdEqMut(id, q) == Str(id) = Str(PyStr(q)) \/ "0" \o Str(id) = Str(PyStr(q))
IdEq(id, q) == Str(id) = Str(PyStr(q))

\* (variant: the scan runs from the last record down, the last match wins)
RECURSIVE ScanFromMut(_, _, _)
ScanFromMut(recs, q, k) ==
    IF k < 1 THEN 0
    ELSE IF IdEq(recs[k].ID, q) THEN k
    ELSE ScanFromMut(recs, q, k - 1)

RECURSIVE ScanFrom(_, _, _)
ScanFrom(recs, q, k) ==
    IF k > Len(recs) THEN 0
    ELSE IF IdEq(recs[k].ID, q) THEN k
    ELSE ScanFrom(recs, q, k + 1)

FirstMatchMut(recs, q) == ScanFromMut(recs, q, Len(recs))
FirstMatch(recs, q) == ScanFrom(recs, q, 1)

\* enumerate(records, start=2): the number paired with position k of records
Enumerate(k) == (k - 1) + EnumStart

\* the branch taken for the matched record
\* (variants: the entry check left out, the entry check inverted, the exit
\* check left out)
DecideNoEntryCheck(r) ==
    IF ~Truthy(r.ExitStatus) THEN "Write" ELSE "AlreadyDone"
DecideEntryInverted(r) ==
    IF Truthy(r.EntryStatus) THEN "Rejected"
    ELSE IF ~Truthy(r.ExitStatus) THEN "Write"
    ELSE "AlreadyDone"
DecideNoExitCheck(r) ==
    IF ~Truthy(r.EntryStatus) THEN "Rejected" ELSE "Write"
Decide(r) ==
    IF ~Truthy(r.EntryStatus) THEN "Rejected"
    ELSE IF ~Truthy(r.ExitStatus) THEN "Write"
    ELSE "AlreadyDone"

\* except Exception as e: every fault of a store call is an Exception
\* (variant: the fault is of a class the clause does not catch)
CaughtMut == FALSE
Caught == TRUE

NoRow == [ID |-> PyStr(""), Name |-> "", Branch |-> "", EntryStatus |-> "",
          EntryTime |-> "", ExitStatus |-> "", ExitTime |-> ""]
NoStats == [total_entries |-> PyStr("None"), total_exits |-> PyStr("None"),
            currently_present |-> PyStr("None"),
            total_students |-> PyStr("None")]

Locals ==
    /\ pc = [p \in Stations |-> "idle"]
    /\ qr = [p \in Stations |-> ""]
    /\ i = [p \in Stations |-> 0]
    /\ row = [p \in Stations |-> NoRow]
    /\ now = [p \in Stations |-> ""]
    /\ outcome = [p \in Stations |-> "None"]
    /\ raised = [p \in Stations |-> FALSE]
    /\ wlog = [p \in Stations |-> <<>>]
    /\ seen = [p \in Stations |-> FALSE]
    /\ lastw = "none"
    /\ stats = [p \in Stations |-> NoStats]
    /\ prev = ""

\* the worksheet is filled in out-of-band, before any station runs
Init == sheet \in {sh \in Sheets : Consistent(sh)} /\ Locals

InitAny == sheet \in Sheets /\ Locals

\* the except clause of process_student_exit
Fault(p) ==
    /\ pc' = [pc EXCEPT ![p] = "done"]
    /\ outcome' = [outcome EXCEPT ![p] = IF Caught THEN "StoreError" ELSE "None"]
    /\ raised' = [raised EXCEPT ![p] = ~Caught]

\* the call up to its first write: read all records, scan, read the station's
\* wall clock (t seconds; the stations' clocks are not synchronised), branch
\* on the matched record.  now is computed for every match but only the
\* writing branch uses it, so it is kept for that branch alone.
Scan(p, q, t) ==
    /\ pc[p] = "idle"
    /\ LET records == GetAllRecords(sheet)
           k == FirstMatch(records, q)
           d == IF k = 0 THEN "NotFound" ELSE Decide(records[k])
       IN /\ qr' = [qr EXCEPT ![p] = q]
          /\ i' = [i EXCEPT ![p] = IF k = 0 THEN 0 ELSE Enumerate(k)]
          /\ row' = [row EXCEPT ![p] = IF k = 0 THEN NoRow ELSE records[k]]
          /\ now' = [now EXCEPT ![p] = IF d = "Write" THEN Strftime(t) ELSE ""]
          /\ pc' = [pc EXCEPT ![p] = IF d = "Write" THEN "w1" ELSE "done"]
          /\ outcome' = [outcome EXCEPT ![p] = IF d = "Write" THEN "None" ELSE d]
    /\ seen' = [seen EXCEPT ![p] = (prev = q)]
    /\ UNCHANGED <<sheet, raised, wlog, lastw, stats, prev>>

\* get_all_records raises
ScanFetchFails(p, q) ==
    /\ pc[p] = "idle"
    /\ qr' = [qr EXCEPT ![p] = q]
    /\ seen' = [seen EXCEPT ![p] = (prev = q)]
    /\ Fault(p)
    /\ UNCHANGED <<sheet, i, row, now, wlog, lastw, stats, prev>>

\* sheet.update_cell(i, 6, "Exited")
WriteStatus(p) ==
    /\ pc[p] = "w1"
    /\ sheet' = UpdateCell(sheet, i[p], ExitStatusCol, "Exited")
    /\ wlog' = [wlog EXCEPT ![p] = Append(@, ExitStatusCol)]
    /\ pc' = [pc EXCEPT ![p] = "w2"]
    /\ UNCHANGED <<qr, i, row, now, outcome, raised, seen, lastw, stats,
                   prev>>

\* sheet.update_cell(i, 7, now), then the success messages
WriteTime(p) ==
    /\ pc[p] = "w2"
    /\ sheet' = UpdateCell(sheet, i[p], ExitTimeCol, now[p])
    /\ wlog' = [wlog EXCEPT ![p] = Append(@, ExitTimeCol)]
    /\ lastw' = p
    /\ pc' = [pc EXCEPT ![p] = "done"]
    /\ outcome' = [outcome EXCEPT ![p] = "Recorded"]
    /\ UNCHANGED <<qr, i, row, now, raised, seen, stats, prev>>

\* either update_cell raises: the failing call writes nothing
WriteFails(p) ==
    /\ pc[p] \in {"w1", "w2"}
    /\ Fault(p)
    /\ UNCHANGED <<sheet, qr, i, row, now, wlog, seen, lastw, stats,
                   prev>>

\* the station process is stopped between the two writes
Interrupt(p) ==
    /\ pc[p] = "w2"
    /\ pc' = [pc EXCEPT ![p] = "killed"]
    /\ UNCHANGED <<sheet, qr, i, row, now, outcome, raised, wlog, seen,
                   lastw, stats, prev>>

\* get_exit_statistics: sum(1 for row in records if row.get(col) == value)
RECURSIVE CountFrom(_, _, _, _)
CountFrom(recs, col, value, k) ==
    IF k > Len(recs) THEN 0
    ELSE (IF recs[k][col] = value THEN 1 ELSE 0)
         + CountFrom(recs, col, value, k + 1)

\* (variant: currently_present counted from the number of records)
GetExitStatisticsMut(recs) ==
    LET total_entries == CountFrom(recs, "EntryStatus", "Entered", 1)
        total_exits == CountFrom(recs, "ExitStatus", "Exited", 1)
    IN [total_entries |-> PyInt(total_entries),
        total_exits |-> PyInt(total_exits),
        currently_present |-> PyInt(Len(recs) - total_exits),
        total_students |-> PyInt(Len(recs))]

GetExitStatistics(recs) ==
    LET total_entries == CountFrom(recs, "EntryStatus", "Entered", 1)
        total_exits == CountFrom(recs, "ExitStatus", "Exited", 1)
    IN [total_entries |-> PyInt(total_entries),
        total_exits |-> PyInt(total_exits),
        currently_present |-> PyInt(total_entries - total_exits),
        total_students |-> PyInt(Len(recs))]

\* the except clause of get_exit_statistics
ErrorStats ==
    [total_entries |-> PyStr("Error"), total_exits |-> PyStr("Error"),
     currently_present |-> PyStr("Error"), total_students |-> PyStr("Error")]

\* main(): after the scan, or with no scan at all, the statistics are read
GetStats(p) ==
    /\ pc[p] \in {"idle", "done"}
    /\ stats' = [stats EXCEPT ![p] = GetExitStatistics(GetAllRecords(sheet))]
    /\ pc' = [pc EXCEPT ![p] = IF pc[p] = "idle" THEN "loaded" ELSE "shown"]
    /\ UNCHANGED <<sheet, qr, i, row, now, outcome, raised, wlog, seen,
                   lastw, prev>>

\* get_all_records raises inside get_exit_statistics
GetStatsFails(p) ==
    /\ pc[p] \in {"idle", "done"}
    /\ stats' = [stats EXCEPT ![p] = ErrorStats]
    /\ pc' = [pc EXCEPT ![p] = IF pc[p] = "idle" THEN "loaded" ELSE "shown"]
    /\ UNCHANGED <<sheet, qr, i, row, now, outcome, raised, wlog, seen,
                   lastw, prev>>

\* the script run ends (or the stopped process is started again): its
\* locals are gone and the station waits for the next interaction
Return(p) ==
    /\ pc[p] \in {"done", "shown", "loaded", "killed"}
    /\ prev' = IF pc[p] \in {"done", "shown"} /\ outcome[p] = "Recorded"
               THEN qr[p] ELSE prev
    /\ lastw' = IF lastw = p THEN "none" ELSE lastw
    /\ pc' = [pc EXCEPT ![p] = "idle"]
    /\ qr' = [qr EXCEPT ![p] = ""]
    /\ i' = [i EXCEPT ![p] = 0]
    /\ row' = [row EXCEPT ![p] = NoRow]
    /\ now' = [now EXCEPT ![p] = ""]
    /\ outcome' = [outcome EXCEPT ![p] = "None"]
    /\ raised' = [raised EXCEPT ![p] = FALSE]
    /\ wlog' = [wlog EXCEPT ![p] = <<>>]
    /\ seen' = [seen EXCEPT ![p] = FALSE]
    /\ stats' = [stats EXCEPT ![p] = NoStats]
    /\ UNCHANGED sheet

Times == 0..MaxClock

\* Two stations run process_student_exit against the same worksheet; their
\* store calls interleave freely.
Next ==
    \/ \E p \in Stations, q \in ScanInputs, t \in Times : Scan(p, q, t)
    \/ \E p \in Stations, q \in ScanInputs : ScanFetchFails(p, q)
    \/ \E p \in Stations : WriteStatus(p)
    \/ \E p \in Stations : WriteTime(p)
    \/ \E p \in Stations : WriteFails(p)
    \/ \E p \in Stations : Interrupt(p)
    \/ \E p \in Stations : Return(p)

Spec == Init /\ [][Next]_vars

\* One script run of main() at a time: a run starts only while every other
\* station is idle, so no two runs overlap; each run ends with the statistics.
Quiet(p) == \A o \in Stations \ {p} : pc[o] = "idle"

SerialScan(p, q, t) == Quiet(p) /\ Scan(p, q, t)
SerialScanFetchFails(p, q) == Quiet(p) /\ ScanFetchFails(p, q)
SerialGetStats(p) == Quiet(p) /\ GetStats(p)
SerialGetStatsFails(p) == Quiet(p) /\ GetStatsFails(p)

NextSerial ==
    \/ \E p \in Stations, q \in ScanInputs, t \in Times : SerialScan(p, q, t)
    \/ \E p \in Stations, q \in ScanInputs : SerialScanFetchFails(p, q)
    \/ \E p \in Stations : WriteStatus(p)
    \/ \E p \in Stations : WriteTime(p)
    \/ \E p \in Stations : WriteFails(p)
    \/ \E p \in Stations : Interrupt(p)
    \/ \E p \in Stations : SerialGetStats(p)
    \/ \E p \in Stations : SerialGetStatsFails(p)
    \/ \E p \in Stations : Return(p)

SpecSerial == InitAny /\ [][NextSerial]_vars

(* ============================ properties =============================== *)
\* The data model's reading of the worksheet, kept apart from the code's.
SameId(cell, q) ==
    \/ cell.kind = "int" /\ IntToStr(cell.val) = q
    \/ cell.kind = "str" /\ cell.val = q

\* the data rows whose id is q, and the first of them (0 if there is none)
Matching(q) == {r \in 2..Len(sheet) : SameId(sheet[r][1], q)}
FirstRow(q) ==
    IF Matching(q) = {} THEN 0
    ELSE CHOOSE r \in Matching(q) : \A o \in Matching(q) : r <= o

\* station p is inside or just past a call of process_student_exit
InCall(p) == pc[p] \in {"w1", "w2", "killed", "done", "shown"}
Finished(p) == pc[p] \in {"done", "shown"}
\* the call's read of the records raised
FetchFailed(p) == Finished(p) /\ outcome[p] = "StoreError" /\ i[p] = 0
\* the record the call matched had entered and not exited when it was read
Eligible(p) == i[p] # 0 /\ row[p].EntryStatus # "" /\ row[p].ExitStatus = ""

\* C1: a call whose identifier's first matching record has entry_status unset
\* ends Rejected and writes no cell, whatever the record's exit cells hold and
\* however often it is repeated (a call whose read fails ends StoreError).
C1_ExitBeforeEntryRejected ==
    \A p \in Stations :
        (/\ InCall(p)
         /\ ~FetchFailed(p)
         /\ FirstRow(qr[p]) # 0
         /\ sheet[FirstRow(qr[p])][4] = "")
        => /\ Finished(p)
           /\ outcome[p] = "Rejected"
           /\ wlog[p] = <<>>

C1_Witness ==
    \E p \in Stations :
        /\ pc[p] = "done"
        /\ outcome[p] = "Rejected"
        /\ sheet[i[p]][4] = ""
        /\ sheet[i[p]][6] = "Exited"
        /\ sheet[i[p]][7] # ""

\* C2: on an entered, not-yet-exited record the call ends Recorded with the
\* status and its own timestamp stored; a later call with the same identifier
\* ends AlreadyDone, writes nothing and leaves the stored exit_time as it
\* read it.
C2_Idempotent ==
    \A p \in Stations :
        /\ (pc[p] = "done" /\ Eligible(p) /\ outcome[p] # "StoreError")
           => /\ outcome[p] = "Recorded"
              /\ wlog[p] = <<6, 7>>
              /\ sheet[i[p]][6] = "Exited"
              /\ sheet[i[p]][7] = now[p]
        /\ (pc[p] = "done" /\ seen[p] /\ ~FetchFailed(p))
           => /\ outcome[p] = "AlreadyDone"
              /\ wlog[p] = <<>>
              /\ sheet[i[p]][6] = "Exited"
              /\ sheet[i[p]][7] = row[p].ExitTime
              /\ sheet[i[p]][7] # ""

C2_Witness ==
    \E p \in Stations :
        /\ pc[p] = "done"
        /\ seen[p]
        /\ outcome[p] = "AlreadyDone"
        /\ wlog[p] = <<>>

\* C3: no exception leaves process_student_exit; a call whose read raised, or
\* that reached the writing branch and did not finish both writes, ends
\* StoreError.
C3_StoreFailureIsolated ==
    \A p \in Stations :
        /\ ~raised[p]
        /\ Finished(p) => outcome[p] \in {"Recorded", "AlreadyDone", "Rejected",
                                          "NotFound", "StoreError"}
        /\ (Finished(p) /\ Eligible(p) /\ wlog[p] # <<6, 7>>)
           => outcome[p] = "StoreError"
        /\ (Finished(p) /\ outcome[p] = "StoreError") => Len(wlog[p]) < 2

C3_Witness ==
    \E p \in Stations :
        /\ pc[p] = "done"
        /\ outcome[p] = "StoreError"
        /\ wlog[p] = <<6>>
        /\ ~raised[p]

\* C4: a call whose identifier is the id of no record ends NotFound, never
\* reaches a write and matches no row.
C4_UnknownIdNotFound ==
    \A p \in Stations :
        (InCall(p) /\ ~FetchFailed(p) /\ Matching(qr[p]) = {})
        => /\ Finished(p)
           /\ outcome[p] = "NotFound"
           /\ i[p] = 0
           /\ wlog[p] = <<>>

C4_Witness ==
    \E p \in Stations :
        /\ pc[p] = "done"
        /\ outcome[p] = "NotFound"
        /\ qr[p] = "07"
        /\ \E r \in 2..Len(sheet) : sheet[r][1] = PyInt(7)

\* C5: from a worksheet in which no row is Exited without being Entered,
\* every reachable worksheet has entry_status = Entered in each row whose
\* exit_status is Exited, calls that fail part-way included.
C5_ExitedImpliesEntered ==
    \A r \in 2..Len(sheet) : sheet[r][6] = "Exited" => sheet[r][4] = "Entered"

C5_Witness ==
    \E p \in Stations :
        /\ pc[p] = "done"
        /\ outcome[p] = "StoreError"
        /\ wlog[p] = <<6>>
        /\ row[p].ExitStatus = ""
        /\ sheet[i[p]][6] = "Exited"
        /\ sheet[i[p]][4] = "Entered"

\* C6: no step takes a set entry_status or exit_status of any row to unset
\* or to another value.
C6_StatusMonotonic ==
    [][/\ Len(sheet') = Len(sheet)
       /\ \A r \in 2..Len(sheet) :
             /\ sheet[r][4] # "" => sheet'[r][4] = sheet[r][4]
             /\ sheet[r][6] # "" => sheet'[r][6] = sheet[r][6]]_vars

C6_Witness ==
    \E p, o \in Stations :
        /\ p # o
        /\ pc[p] = "w2"
        /\ pc[o] = "done"
        /\ outcome[o] = "Recorded"
        /\ i[o] = i[p]
        /\ sheet[i[p]][6] = "Exited"

\* C7: a step changes at most the exit_status and exit_time cells (columns 6
\* and 7) of the first row whose id is the identifier of a running call;
\* every other cell, every other row (a later row with the same id too) and
\* the number of rows stay as they are.
C7_Frame ==
    [][/\ Len(sheet') = Len(sheet)
       /\ \A r \in 1..Len(sheet) : \A c \in 1..7 :
             sheet'[r][c] # sheet[r][c]
             => /\ c \in {6, 7}
                /\ \E p \in Stations : InCall(p) /\ r = FirstRow(qr[p])]_vars

C7_Witness ==
    \E p \in Stations :
        /\ pc[p] = "done"
        /\ outcome[p] = "Recorded"
        /\ \E r \in 2..Len(sheet) :
              /\ r > i[p]
              /\ SameId(sheet[r][1], qr[p])
              /\ sheet[r][4] = "Entered"
              /\ sheet[r][6] = ""

\* C8: a call writes at most two cells, column 6 and then column 7, never
\* column 7 alone; when it is stopped or its second write raises after the
\* first succeeded, the row is left with exit_status set and exit_time unset
\* and nothing more is written.
C8_TwoWritesStatusFirst ==
    \A p \in Stations :
        /\ wlog[p] \in {<<>>, <<6>>, <<6, 7>>}
        /\ pc[p] = "killed" => wlog[p] = <<6>>
        /\ ((pc[p] = "killed" \/ (Finished(p) /\ outcome[p] = "StoreError"))
            /\ wlog[p] # <<>>)
           => /\ wlog[p] = <<6>>
              /\ sheet[i[p]][6] = "Exited"
              /\ sheet[i[p]][7] = ""

C8_Witness ==
    \E p \in Stations :
        /\ pc[p] = "shown"
        /\ outcome[p] = "StoreError"
        /\ wlog[p] = <<6>>
        /\ sheet[i[p]][6] = "Exited"
        /\ sheet[i[p]][7] = ""

\* C9: the statistics a script run shows are either the four numbers
\* totalEntries = rows with entry_status Entered, totalExits = rows with
\* exit_status Exited, currentlyPresent = totalEntries - totalExits and
\* totalStudents = number of records, or the error sentinel in all four
\* fields.
C9_StatisticsIdentity ==
    \A p \in Stations :
        pc[p] \in {"shown", "loaded"}
        => LET entered == Cardinality({r \in 2..Len(sheet) : sheet[r][4] = "Entered"})
               exited == Cardinality({r \in 2..Len(sheet) : sheet[r][6] = "Exited"})
           IN \/ /\ stats[p].total_entries = PyInt(entered)
                 /\ stats[p].total_exits = PyInt(exited)
                 /\ stats[p].currently_present = PyInt(entered - exited)
                 /\ stats[p].total_students = PyInt(Len(sheet) - 1)
              \/ /\ stats[p].total_entries = PyStr("Error")
                 /\ stats[p].total_exits = PyStr("Error")
                 /\ stats[p].currently_present = PyStr("Error")
                 /\ stats[p].total_students = PyStr("Error")

C9_Witness ==
    \E p \in Stations :
        /\ pc[p] = "shown"
        /\ outcome[p] = "Recorded"
        /\ stats[p].total_exits = PyInt(1)
        /\ stats[p].total_entries = PyInt(2)
        /\ stats[p].currently_present = PyInt(1)
        /\ stats[p].total_students = PyInt(2)

\* C10: when two stations' calls on the same entered, not-yet-exited record
\* both read before either writes, both end Recorded and the stored exit_time
\* is the timestamp written last; a call that begins after a call with the
\* same identifier has recorded and returned ends AlreadyDone and writes
\* nothing.
C10_RaceBothRecorded ==
    /\ \A p, o \in Stations :
          (/\ p # o
           /\ pc[p] = "done" /\ pc[o] = "done"
           /\ i[p] = i[o]
           /\ Eligible(p) /\ Eligible(o)
           /\ outcome[p] # "StoreError" /\ outcome[o] # "StoreError")
          => /\ outcome[p] = "Recorded" /\ outcome[o] = "Recorded"
             /\ lastw \in {p, o}
             /\ sheet[i[p]][7] = now[lastw]
    /\ \A p \in Stations :
          (pc[p] = "done" /\ seen[p] /\ ~FetchFailed(p))
          => outcome[p] = "AlreadyDone" /\ wlog[p] = <<>>

C10_Witness ==
    \E p, o \in Stations :
        /\ p # o
        /\ pc[p] = "done" /\ pc[o] = "done"
        /\ i[p] = i[o]
        /\ outcome[p] = "Recorded" /\ outcome[o] = "Recorded"
        /\ now[p] # now[o]
        /\ lastw = o
        /\ sheet[i[p]][7] = now[o]

====
